---- MODULE Spec2Model ----
(***************************************************************************)
(* Model of the ledger processor of payment-engine (src/src/main.rs):      *)
(* process_csv folds a stream of Transaction records into a map of         *)
(* ClientState values and a global index of disputable transactions.       *)
(*                                                                         *)
(* Decimal amounts are integers in units of 0.00001 (one digit more than   *)
(* TX_AMOUNT_DECIMAL_PLACES), so round_dp has something to round.  Decimal *)
(* overflow (96-bit mantissa) is far outside the bounds and not modelled.  *)
(***************************************************************************)
EXTENDS Integers, FiniteSets, Sequences, TLC

\* ---------------------------------------------------------------- bounds
\* Length of the input: the number of records the reader yields.
MaxRecords == 4

\* The client ids (u16) and tx ids (u32) the records draw from.  A record
\* touches one account and one index entry, so two of each give every
\* interaction between a record and an earlier one: same or other client,
\* same or other tx id.  (The confirmed properties were also run once with
\* three of each, at MaxRecords 4: 5,956,194 distinct states, none violated.)
ClientIds == {1, 2}

TxIds == {1, 2}

\* ------------------------------------------------------------- constants
TX_AMOUNT_DECIMAL_PLACES == 4

\* Number of decimal places the model's integers carry.
ModelDecimalPlaces == TX_AMOUNT_DECIMAL_PLACES + 1

\* One unit of the last kept decimal place, in model integers.
RoundingUnit == 10 ^ (ModelDecimalPlaces - TX_AMOUNT_DECIMAL_PLACES)

\* ------------------------------------------------------- Option<Decimal>
None == [some |-> FALSE, val |-> 0]

Some(v) == [some |-> TRUE, val |-> v]

\* Raw amounts a Deposit/Withdrawal record may carry: -0.00015, 0.00015
\* and 0.00026 (they round to -0.0002, 0.0002 and 0.0003).
RawAmounts == {-15, 15, 26}

Amounts == {None} \cup {Some(v) : v \in RawAmounts}

\* Option::unwrap_or_default: None becomes Decimal zero.
UnwrapOrDefault(option) == IF option.some THEN option.val ELSE 0

RoundDpHalfUp(x) ==
    LET q == x \div RoundingUnit
        r == x % RoundingUnit
        half == RoundingUnit \div 2
    IN  IF r < half THEN q * RoundingUnit ELSE (q + 1) * RoundingUnit

\* Decimal::round_dp(TX_AMOUNT_DECIMAL_PLACES): banker's rounding
\* (round half to even) to 4 decimal places.  The result stays in model
\* units, so it is a multiple of RoundingUnit.
RoundDp(x) ==
    LET q == x \div RoundingUnit
        r == x % RoundingUnit
        half == RoundingUnit \div 2
    IN  IF r < half THEN q * RoundingUnit
        ELSE IF r > half THEN (q + 1) * RoundingUnit
        ELSE IF q % 2 = 0 THEN q * RoundingUnit
        ELSE (q + 1) * RoundingUnit

\* ---------------------------------------------------------------- records
\* Record constructors list their fields in the order the field names first
\* occur in this module, the order TLC normalises records to.
TransactionTypes == {"deposit", "withdrawal", "dispute", "resolve", "chargeback"}

Transaction(type, client_id, tx_id, amount) ==
    [type |-> type, client_id |-> client_id, tx_id |-> tx_id, amount |-> amount]

\* Value of the loop variable before the first record is read.
NoTx == Transaction("none", 0, 0, None)

DefaultClientStateLocked(client_id) ==
    [client_id |-> client_id, available |-> 0, held |-> 0, total |-> 0,
     locked |-> TRUE, disputed_tx_ids |-> {}]

\* ClientState::default() with client_id filled in by the or_insert_with
\* closure.
DefaultClientState(client_id) ==
    [client_id |-> client_id, available |-> 0, held |-> 0, total |-> 0,
     locked |-> FALSE, disputed_tx_ids |-> {}]

\* HashMap::insert: adds the key or replaces its value.
Insert(map, key, value) ==
    [k \in DOMAIN map \cup {key} |-> IF k = key THEN value ELSE map[k]]

\* client_states.entry(client_id).or_insert_with(...): the map with an
\* entry for client_id, which is a default one when it was absent.
Entry(states, client_id) ==
    IF client_id \in DOMAIN states THEN states
    ELSE Insert(states, client_id, DefaultClientState(client_id))

\* ------------------------------------------------------------------ state
VARIABLES client_states, disputable_transactions, tx, records_read, result

vars == <<client_states, disputable_transactions, tx, records_read, result>>

\* ------------------------------------------------------------- match arms
\* Every arm yields the client's state, the index and whether an
\* Option::unwrap hit None (a panic that unwinds process_csv).
ArmResult(state, index, panic) == [state |-> state, index |-> index, panic |-> panic]

DepositArmKeepsFirst(state, index, t, tx_amount) ==
    ArmResult([state EXCEPT !.available = @ + tx_amount],
              IF t.tx_id \in DOMAIN index THEN index ELSE Insert(index, t.tx_id, t),
              FALSE)

DepositArm(state, index, t, tx_amount) ==
    ArmResult([state EXCEPT !.available = @ + tx_amount],
              Insert(index, t.tx_id, t), FALSE)

WithdrawalArmCountsHeld(state, index, t, tx_amount) ==
    ArmResult(IF state.available + state.held >= tx_amount
                 THEN [state EXCEPT !.available = @ - tx_amount]
                 ELSE state,
              Insert(index, t.tx_id, t), FALSE)

WithdrawalArmNoFundsCheck(state, index, t, tx_amount) ==
    ArmResult([state EXCEPT !.available = @ - tx_amount],
              Insert(index, t.tx_id, t), FALSE)

WithdrawalArm(state, index, t, tx_amount) ==
    ArmResult(IF state.available >= tx_amount
                 THEN [state EXCEPT !.available = @ - tx_amount]
                 ELSE state,
              Insert(index, t.tx_id, t), FALSE)

DisputeArmNoOpenCheck(state, index, t, tx_amount) ==
    IF t.tx_id \in DOMAIN index
       THEN LET disputed_tx == index[t.tx_id]
            IN  IF ~disputed_tx.amount.some
                   THEN ArmResult(state, index, TRUE)
                   ELSE LET disputed_amount == RoundDp(disputed_tx.amount.val)
                        IN  ArmResult([state EXCEPT
                                         !.available = @ - disputed_amount,
                                         !.held = @ + disputed_amount,
                                         !.disputed_tx_ids = @ \cup {t.tx_id}],
                                      index, FALSE)
       ELSE ArmResult(state, index, FALSE)

DisputeArmOpensUnknown(state, index, t, tx_amount) ==
    IF t.tx_id \in DOMAIN index
       THEN IF t.tx_id \notin state.disputed_tx_ids
               THEN LET disputed_tx == index[t.tx_id]
                    IN  IF ~disputed_tx.amount.some
                           THEN ArmResult(state, index, TRUE)
                           ELSE LET disputed_amount == RoundDp(disputed_tx.amount.val)
                                IN  ArmResult([state EXCEPT
                                                 !.available = @ - disputed_amount,
                                                 !.held = @ + disputed_amount,
                                                 !.disputed_tx_ids = @ \cup {t.tx_id}],
                                              index, FALSE)
               ELSE ArmResult(state, index, FALSE)
       ELSE ArmResult([state EXCEPT !.disputed_tx_ids = @ \cup {t.tx_id}],
                      index, FALSE)

DisputeArm(state, index, t, tx_amount) ==
    IF t.tx_id \in DOMAIN index
       THEN IF t.tx_id \notin state.disputed_tx_ids
               THEN LET disputed_tx == index[t.tx_id]
                    IN  IF ~disputed_tx.amount.some
                           \* disputed_tx.amount.unwrap() on None
                           THEN ArmResult(state, index, TRUE)
                           ELSE LET disputed_amount == RoundDp(disputed_tx.amount.val)
                                IN  ArmResult([state EXCEPT
                                                 !.available = @ - disputed_amount,
                                                 !.held = @ + disputed_amount,
                                                 !.disputed_tx_ids = @ \cup {t.tx_id}],
                                              index, FALSE)
               ELSE ArmResult(state, index, FALSE)
       ELSE ArmResult(state, index, FALSE)

ResolveArmNoOpenCheck(state, index, t, tx_amount) ==
    IF t.tx_id \in DOMAIN index
       THEN LET disputed_tx == index[t.tx_id]
                removed == [state EXCEPT !.disputed_tx_ids = @ \ {t.tx_id}]
            IN  IF ~disputed_tx.amount.some
                   THEN ArmResult(removed, index, TRUE)
                   ELSE LET disputed_amount == RoundDp(disputed_tx.amount.val)
                        IN  ArmResult([removed EXCEPT
                                         !.available = @ + disputed_amount,
                                         !.held = @ - disputed_amount],
                                      index, FALSE)
       ELSE ArmResult(state, index, FALSE)

ResolveArm(state, index, t, tx_amount) ==
    IF t.tx_id \in DOMAIN index /\ t.tx_id \in state.disputed_tx_ids
       THEN LET disputed_tx == index[t.tx_id]
                \* the tx id leaves the set before the amount is unwrapped
                removed == [state EXCEPT !.disputed_tx_ids = @ \ {t.tx_id}]
            IN  IF ~disputed_tx.amount.some
                   THEN ArmResult(removed, index, TRUE)
                   ELSE LET disputed_amount == RoundDp(disputed_tx.amount.val)
                        IN  ArmResult([removed EXCEPT
                                         !.available = @ + disputed_amount,
                                         !.held = @ - disputed_amount],
                                      index, FALSE)
       ELSE ArmResult(state, index, FALSE)

ChargebackArmKeepsHeld(state, index, t, tx_amount) ==
    IF t.tx_id \in DOMAIN index /\ t.tx_id \in state.disputed_tx_ids
       THEN LET disputed_tx == index[t.tx_id]
                removed == [state EXCEPT !.disputed_tx_ids = @ \ {t.tx_id}]
            IN  IF ~disputed_tx.amount.some
                   THEN ArmResult(removed, index, TRUE)
                   ELSE ArmResult([removed EXCEPT !.locked = TRUE], index, FALSE)
       ELSE ArmResult(state, index, FALSE)

ChargebackArmNoLock(state, index, t, tx_amount) ==
    IF t.tx_id \in DOMAIN index /\ t.tx_id \in state.disputed_tx_ids
       THEN LET disputed_tx == index[t.tx_id]
                removed == [state EXCEPT !.disputed_tx_ids = @ \ {t.tx_id}]
            IN  IF ~disputed_tx.amount.some
                   THEN ArmResult(removed, index, TRUE)
                   ELSE LET disputed_amount == RoundDp(disputed_tx.amount.val)
                        IN  ArmResult([removed EXCEPT
                                         !.held = @ - disputed_amount],
                                      index, FALSE)
       ELSE ArmResult(state, index, FALSE)

ChargebackArm(state, index, t, tx_amount) ==
    IF t.tx_id \in DOMAIN index /\ t.tx_id \in state.disputed_tx_ids
       THEN LET disputed_tx == index[t.tx_id]
                removed == [state EXCEPT !.disputed_tx_ids = @ \ {t.tx_id}]
            IN  IF ~disputed_tx.amount.some
                   THEN ArmResult(removed, index, TRUE)
                   ELSE LET disputed_amount == RoundDp(disputed_tx.amount.val)
                        IN  ArmResult([removed EXCEPT
                                         !.held = @ - disputed_amount,
                                         !.locked = TRUE],
                                      index, FALSE)
       ELSE ArmResult(state, index, FALSE)

\* match tx.r#type { ... }
Match(state, index, t, tx_amount) ==
    CASE t.type = "deposit"    -> DepositArm(state, index, t, tx_amount)
      [] t.type = "withdrawal" -> WithdrawalArm(state, index, t, tx_amount)
      [] t.type = "dispute"    -> DisputeArm(state, index, t, tx_amount)
      [] t.type = "resolve"    -> ResolveArm(state, index, t, tx_amount)
      [] t.type = "chargeback" -> ChargebackArm(state, index, t, tx_amount)

TotalIgnoresHeld(state) == [state EXCEPT !.total = state.available]

\* state.total = state.available + state.held
UpdateTotal(state) == [state EXCEPT !.total = state.available + state.held]

NeverSkipped(state) == FALSE

\* The negation of the guard `if !state.locked`: the record is skipped.
Skipped(state) == state.locked

\* ------------------------------------------------------- one loop iteration
ProcessTxOwner(states, index, t) ==
    LET owner == IF t.type \in {"dispute", "resolve", "chargeback"}
                    /\ t.tx_id \in DOMAIN index
                    THEN index[t.tx_id].client_id
                    ELSE t.client_id
        with_entry == Entry(Entry(states, t.client_id), owner)
        state == with_entry[owner]
    IN  IF Skipped(state)
           THEN [client_states |-> with_entry, disputable_transactions |-> index,
                 panic |-> FALSE]
           ELSE LET tx_amount == RoundDp(UnwrapOrDefault(t.amount))
                    arm == Match(state, index, t, tx_amount)
                IN  IF arm.panic
                       THEN [client_states |-> Insert(with_entry, owner, arm.state),
                             disputable_transactions |-> arm.index,
                             panic |-> TRUE]
                       ELSE [client_states |->
                                 Insert(with_entry, owner, UpdateTotal(arm.state)),
                             disputable_transactions |-> arm.index,
                             panic |-> FALSE]

ProcessTxIndexesLocked(states, index, t) ==
    LET with_entry == Entry(states, t.client_id)
        state == with_entry[t.client_id]
    IN  IF Skipped(state)
           THEN [client_states |-> with_entry,
                 disputable_transactions |->
                     IF t.type \in {"deposit", "withdrawal"}
                        THEN Insert(index, t.tx_id, t)
                        ELSE index,
                 panic |-> FALSE]
           ELSE LET tx_amount == RoundDp(UnwrapOrDefault(t.amount))
                    arm == Match(state, index, t, tx_amount)
                IN  IF arm.panic
                       THEN [client_states |->
                                 Insert(with_entry, t.client_id, arm.state),
                             disputable_transactions |-> arm.index,
                             panic |-> TRUE]
                       ELSE [client_states |->
                                 Insert(with_entry, t.client_id,
                                        UpdateTotal(arm.state)),
                             disputable_transactions |-> arm.index,
                             panic |-> FALSE]

\* The body of `for result in reader.deserialize()` for one decoded record:
\* the account map, the index, and whether the iteration panicked.
ProcessTx(states, index, t) ==
    LET with_entry == Entry(states, t.client_id)
        state == with_entry[t.client_id]
    IN  IF Skipped(state)
           THEN [client_states |-> with_entry, disputable_transactions |-> index,
                 panic |-> FALSE]
           ELSE LET tx_amount == RoundDp(UnwrapOrDefault(t.amount))
                    arm == Match(state, index, t, tx_amount)
                IN  IF arm.panic
                       THEN [client_states |->
                                 Insert(with_entry, t.client_id, arm.state),
                             disputable_transactions |-> arm.index,
                             panic |-> TRUE]
                       ELSE [client_states |->
                                 Insert(with_entry, t.client_id,
                                        UpdateTotal(arm.state)),
                             disputable_transactions |-> arm.index,
                             panic |-> FALSE]

\* ---------------------------------------------------------------- actions
Init ==
    /\ client_states = <<>>
    /\ disputable_transactions = <<>>
    /\ tx = NoTx
    /\ records_read = 0
    /\ result = "running"

\* The loop is running and the reader has another record to yield.
CanRead == result = "running" /\ records_read < MaxRecords

\* A panic in the loop body unwinds process_csv; otherwise the loop goes on.
Outcome(out) == IF out.panic THEN "panic" ELSE "running"

\* Each of the five actions reads one record of its kind and runs the loop
\* body on it.
Deposit ==
    \E c \in ClientIds, i \in TxIds, a \in Amounts :
        LET t == Transaction("deposit", c, i, a)
            out == ProcessTx(client_states, disputable_transactions, t)
        IN  /\ CanRead
            /\ client_states' = out.client_states
            /\ disputable_transactions' = out.disputable_transactions
            /\ result' = Outcome(out)
            /\ tx' = t
            /\ records_read' = records_read + 1

Withdrawal ==
    \E c \in ClientIds, i \in TxIds, a \in Amounts :
        LET t == Transaction("withdrawal", c, i, a)
            out == ProcessTx(client_states, disputable_transactions, t)
        IN  /\ CanRead
            /\ client_states' = out.client_states
            /\ disputable_transactions' = out.disputable_transactions
            /\ result' = Outcome(out)
            /\ tx' = t
            /\ records_read' = records_read + 1

\* Dispute, Resolve and Chargeback records carry no amount in the input
\* format; an amount that is present is computed into tx_amount and never
\* used, so the model reads them with amount None.
Dispute ==
    \E c \in ClientIds, i \in TxIds :
        LET t == Transaction("dispute", c, i, None)
            out == ProcessTx(client_states, disputable_transactions, t)
        IN  /\ CanRead
            /\ client_states' = out.client_states
            /\ disputable_transactions' = out.disputable_transactions
            /\ result' = Outcome(out)
            /\ tx' = t
            /\ records_read' = records_read + 1

Resolve ==
    \E c \in ClientIds, i \in TxIds :
        LET t == Transaction("resolve", c, i, None)
            out == ProcessTx(client_states, disputable_transactions, t)
        IN  /\ CanRead
            /\ client_states' = out.client_states
            /\ disputable_transactions' = out.disputable_transactions
            /\ result' = Outcome(out)
            /\ tx' = t
            /\ records_read' = records_read + 1

Chargeback ==
    \E c \in ClientIds, i \in TxIds :
        LET t == Transaction("chargeback", c, i, None)
            out == ProcessTx(client_states, disputable_transactions, t)
        IN  /\ CanRead
            /\ client_states' = out.client_states
            /\ disputable_transactions' = out.disputable_transactions
            /\ result' = Outcome(out)
            /\ tx' = t
            /\ records_read' = records_read + 1

\* `let tx: Transaction = result?;` on a record that does not decode.
ParseError ==
    /\ CanRead
    /\ result' = "Err"
    /\ UNCHANGED <<client_states, disputable_transactions, tx, records_read>>

\* The reader is exhausted: Ok(client_states).
ReturnOk ==
    /\ result = "running"
    /\ result' = "Ok"
    /\ UNCHANGED <<client_states, disputable_transactions, tx, records_read>>

Next ==
    \/ Deposit
    \/ Withdrawal
    \/ Dispute
    \/ Resolve
    \/ Chargeback
    \/ ParseError
    \/ ReturnOk

Spec == Init /\ [][Next]_vars

\* ------------------------------------------------------------- properties
\* The account a record addressed to client c operates on: the one in the
\* map, or the default one the entry call creates.
AccountOf(c) == Entry(client_states, c)[c]

\* This step read a record of one of the given kinds.
ReadRecord(types) == records_read' = records_read + 1 /\ tx'.type \in types

\* The indexed record's rounded amount, an absent amount counting as zero.
IndexedAmount(i) == RoundDp(UnwrapOrDefault(disputable_transactions[i].amount))

DisputeFamily == {"dispute", "resolve", "chargeback"}

\* C1: in every reachable state every account in the map has
\* total = available + held (fresh, ignored and locked accounts included).
C1_TotalIsAvailablePlusHeld ==
    \A c \in DOMAIN client_states :
        client_states[c].total = client_states[c].available + client_states[c].held

\* A record was applied to an account that has both available and held funds.
C1_Witness ==
    /\ result = "running"
    /\ tx.type \in TransactionTypes
    /\ tx.client_id \in DOMAIN client_states
    /\ client_states[tx.client_id].held > 0
    /\ client_states[tx.client_id].available > 0
    /\ \E c \in DOMAIN client_states : client_states[c] = DefaultClientState(c)

\* C2: once an account is locked, no later record of any kind changes its
\* available, held, total, locked or disputed_tx_ids, and it stays in the map.
C2_LockedAccountFrozen ==
    [][\A c \in DOMAIN client_states :
          client_states[c].locked =>
             /\ c \in DOMAIN client_states'
             /\ client_states'[c] = client_states[c]]_vars

\* A Deposit was just read for a client whose account was already locked.
C2_Witness ==
    /\ result = "running"
    /\ tx.type = "deposit"
    /\ UnwrapOrDefault(tx.amount) > 0
    /\ tx.client_id \in DOMAIN client_states
    /\ client_states[tx.client_id].locked

\* C3: no sequence of structurally valid records makes process_csv abort:
\* the run never ends in a panic.
C3_NeverAborts == result # "panic"

C5_DisputeMovesFunds ==
    [][ReadRecord({"dispute"}) =>
          LET pre == AccountOf(tx'.client_id)
              post == client_states'[tx'.client_id]
              i == tx'.tx_id
          IN  (~pre.locked /\ i \in DOMAIN disputable_transactions
                 /\ i \notin pre.disputed_tx_ids) =>
                 /\ result' = "running"
                 /\ post.available = pre.available - IndexedAmount(i)
                 /\ post.held = pre.held + IndexedAmount(i)
                 /\ post.total = pre.total
                 /\ post.locked = pre.locked
                 /\ post.disputed_tx_ids = pre.disputed_tx_ids \cup {i}]_vars

\* Two outcomes of ProcessTx are the same outcome.
SameOutcome(x, y) ==
    /\ x.client_states = y.client_states
    /\ x.disputable_transactions = y.disputable_transactions
    /\ x.panic = y.panic

\* C6: from every reachable state, a Dispute for (c, t) applied twice in a
\* row leaves exactly the state that applying it once leaves, and a Dispute
\* for a tx id already in c's disputed_tx_ids changes nothing.
C6_DisputeIdempotent ==
    \A c \in ClientIds, i \in TxIds :
        LET d == Transaction("dispute", c, i, None)
            once == ProcessTx(client_states, disputable_transactions, d)
            twice == IF once.panic THEN once
                     ELSE ProcessTx(once.client_states,
                                    once.disputable_transactions, d)
        IN  /\ SameOutcome(twice, once)
            /\ (c \in DOMAIN client_states
                  /\ i \in client_states[c].disputed_tx_ids) =>
                  /\ once.client_states = client_states
                  /\ once.disputable_transactions = disputable_transactions
                  /\ ~once.panic

\* A Dispute was just read and its tx id is under open dispute, with a
\* non-zero amount held, for its client.
C6_Witness ==
    /\ result = "running"
    /\ tx.type = "dispute"
    /\ tx.client_id \in DOMAIN client_states
    /\ ~client_states[tx.client_id].locked
    /\ tx.tx_id \in client_states[tx.client_id].disputed_tx_ids
    /\ client_states[tx.client_id].held > 0

\* C7: a Resolve by an unlocked client for a tx id in its disputed_tx_ids
\* moves the indexed rounded amount from held back to available and removes
\* the tx id from disputed_tx_ids; and a Dispute that is applied, followed
\* at once by the Resolve, returns the account to its pre-dispute value.
C7_ResolveUndoesDispute ==
    [][/\ ReadRecord({"resolve"}) =>
            LET pre == AccountOf(tx'.client_id)
                post == client_states'[tx'.client_id]
                i == tx'.tx_id
            IN  (~pre.locked /\ i \in pre.disputed_tx_ids) =>
                   /\ result' = "running"
                   /\ post.held = pre.held - IndexedAmount(i)
                   /\ post.available = pre.available + IndexedAmount(i)
                   /\ post.disputed_tx_ids = pre.disputed_tx_ids \ {i}
       /\ \A c \in ClientIds, i \in TxIds :
            LET pre == AccountOf(c)
                d == ProcessTx(client_states, disputable_transactions,
                               Transaction("dispute", c, i, None))
                r == ProcessTx(d.client_states, d.disputable_transactions,
                               Transaction("resolve", c, i, None))
            IN  (~pre.locked /\ i \notin pre.disputed_tx_ids /\ ~d.panic
                   /\ i \in d.client_states[c].disputed_tx_ids) =>
                   (~r.panic /\ r.client_states[c] = pre)]_vars

\* C8: a Chargeback by an unlocked client for a tx id in its
\* disputed_tx_ids takes the indexed rounded amount from held, leaves
\* available unchanged (total drops by the amount), locks the account and
\* removes the tx id from disputed_tx_ids.
C8_ChargebackLocks ==
    [][ReadRecord({"chargeback"}) =>
          LET pre == AccountOf(tx'.client_id)
              post == client_states'[tx'.client_id]
              i == tx'.tx_id
          IN  (~pre.locked /\ i \in pre.disputed_tx_ids) =>
                 /\ result' = "running"
                 /\ post.held = pre.held - IndexedAmount(i)
                 /\ post.available = pre.available
                 /\ post.total = pre.total - IndexedAmount(i)
                 /\ post.locked
                 /\ post.disputed_tx_ids = pre.disputed_tx_ids \ {i}]_vars

\* C9: a Dispute, Resolve or Chargeback for a tx id that is not indexed
\* changes no balance, flag, dispute set or index entry (it only creates the
\* client's zeroed account when that is missing); and the Deposit or
\* Withdrawal that indexes a tx id for the first time is applied normally
\* and leaves the tx id in nobody's disputed_tx_ids.
C9_UnknownReferenceIsNoOp ==
    [][/\ (ReadRecord(DisputeFamily)
             /\ tx'.tx_id \notin DOMAIN disputable_transactions) =>
            /\ result' = "running"
            /\ client_states' = Entry(client_states, tx'.client_id)
            /\ disputable_transactions' = disputable_transactions
       /\ (ReadRecord({"deposit", "withdrawal"})
             /\ tx'.tx_id \notin DOMAIN disputable_transactions) =>
            LET pre == AccountOf(tx'.client_id)
                post == client_states'[tx'.client_id]
                a == RoundDp(UnwrapOrDefault(tx'.amount))
            IN  /\ result' = "running"
                /\ \A c \in DOMAIN client_states' :
                      tx'.tx_id \notin client_states'[c].disputed_tx_ids
                /\ ~pre.locked =>
                      /\ tx'.tx_id \in DOMAIN disputable_transactions'
                      /\ post.held = pre.held
                      /\ post.available =
                            IF tx'.type = "deposit" THEN pre.available + a
                            ELSE IF pre.available >= a THEN pre.available - a
                            ELSE pre.available]_vars

\* A Dispute for a tx id that is not indexed was just read, while some
\* account holds funds and another tx id is indexed.
C9_Witness ==
    /\ result = "running"
    /\ tx.type = "dispute"
    /\ tx.tx_id \notin DOMAIN disputable_transactions
    /\ disputable_transactions # <<>>
    /\ \E c \in DOMAIN client_states : client_states[c].available > 0

\* C10: a Resolve or Chargeback whose tx id is indexed but not in its own
\* client's disputed_tx_ids changes no balance, locks nothing and changes
\* no dispute set, also when another client has the tx id under dispute.
C10_ResolveChargebackNeedOwnDispute ==
    [][(ReadRecord({"resolve", "chargeback"})
          /\ tx'.tx_id \in DOMAIN disputable_transactions
          /\ tx'.tx_id \notin AccountOf(tx'.client_id).disputed_tx_ids) =>
            /\ result' = "running"
            /\ client_states' = Entry(client_states, tx'.client_id)
            /\ disputable_transactions' = disputable_transactions]_vars

\* A Chargeback was just read for an indexed tx id that only another client
\* has under dispute; its own client is not locked.
C10_Witness ==
    /\ result = "running"
    /\ tx.type = "chargeback"
    /\ tx.tx_id \in DOMAIN disputable_transactions
    /\ ~client_states[tx.client_id].locked
    /\ \E c \in DOMAIN client_states :
          /\ c # tx.client_id
          /\ tx.tx_id \in client_states[c].disputed_tx_ids
          /\ client_states[c].held > 0

\* C11: a record changes no account but the one named by its own client_id
\* (which it creates when missing); a Dispute, Resolve or Chargeback sent
\* under another client than the one of the indexed record, when it takes
\* effect, moves the indexed record's rounded amount in the sender's account.
C11_OnlyOwnAccountChanges ==
    [][ReadRecord(TransactionTypes) =>
          LET c == tx'.client_id
              i == tx'.tx_id
              pre == AccountOf(c)
              post == client_states'[c]
          IN  /\ DOMAIN client_states' = DOMAIN client_states \cup {c}
              /\ \A o \in DOMAIN client_states \ {c} :
                    client_states'[o] = client_states[o]
              /\ (tx'.type \in DisputeFamily /\ result' = "running"
                    /\ post # pre /\ disputable_transactions[i].client_id # c) =>
                    LET moved == IndexedAmount(i)
                    IN  CASE tx'.type = "dispute" ->
                               /\ post.available = pre.available - moved
                               /\ post.held = pre.held + moved
                          [] tx'.type = "resolve" ->
                               /\ post.available = pre.available + moved
                               /\ post.held = pre.held - moved
                          [] tx'.type = "chargeback" ->
                               /\ post.available = pre.available
                               /\ post.held = pre.held - moved]_vars

\* Client 2 has just disputed a deposit of client 1: the amount is held in
\* client 2's account and client 1 still has it available.
C11_Witness ==
    /\ result = "running"
    /\ tx.type = "dispute"
    /\ tx.client_id = 2
    /\ tx.tx_id \in DOMAIN disputable_transactions
    /\ disputable_transactions[tx.tx_id].client_id = 1
    /\ disputable_transactions[tx.tx_id].type = "deposit"
    /\ client_states[2].disputed_tx_ids = {tx.tx_id}
    /\ client_states[2].held = IndexedAmount(tx.tx_id)
    /\ client_states[2].held > 0
    /\ client_states[2].available = 0 - client_states[2].held
    /\ 1 \in DOMAIN client_states
    /\ client_states[1].available = client_states[2].held
    /\ client_states[1].held = 0
    /\ client_states[1].disputed_tx_ids = {}

\* ------------------------------------------------- restricted input streams
\* The reader yields a record of the given kind, with client id, tx id and
\* amount drawn from the given sets, as one of the first `limit` records,
\* and the loop body runs on it.
Read(kind, clients, ids, amounts, limit) ==
    \E c \in clients, i \in ids, a \in amounts :
        LET t == Transaction(kind, c, i, a)
            out == ProcessTx(client_states, disputable_transactions, t)
        IN  /\ result = "running"
            /\ records_read < limit
            /\ client_states' = out.client_states
            /\ disputable_transactions' = out.disputable_transactions
            /\ result' = Outcome(out)
            /\ tx' = t
            /\ records_read' = records_read + 1

\* Input streams of one client whose Deposit/Withdrawal amounts are the six
\* values of the rounding test: 1.00004, 1.00005, 1.00006, 1.00014, 1.00015
\* and 1.00016.
RoundingRecords == 3

RoundingAmounts == {Some(v) : v \in {100004, 100005, 100006, 100014, 100015, 100016}}

DepositRounding == Read("deposit", {1}, TxIds, RoundingAmounts, RoundingRecords)

WithdrawalRounding == Read("withdrawal", {1}, TxIds, RoundingAmounts, RoundingRecords)

DisputeRounding == Read("dispute", {1}, TxIds, {None}, RoundingRecords)

ResolveRounding == Read("resolve", {1}, TxIds, {None}, RoundingRecords)

ChargebackRounding == Read("chargeback", {1}, TxIds, {None}, RoundingRecords)

NextRounding ==
    \/ DepositRounding
    \/ WithdrawalRounding
    \/ DisputeRounding
    \/ ResolveRounding
    \/ ChargebackRounding
    \/ ReturnOk

SpecRounding == Init /\ [][NextRounding]_vars

\* The table of the rounding law: 1.00004 -> 1.0000, 1.00005 -> 1.0000,
\* 1.00006 -> 1.0001, 1.00014 -> 1.0001, 1.00015 -> 1.0002, 1.00016 -> 1.0002.
RoundingLaw(v) ==
    CASE v = 100004 -> 100000
      [] v = 100005 -> 100000
      [] v = 100006 -> 100010
      [] v = 100014 -> 100010
      [] v = 100015 -> 100020
      [] v = 100016 -> 100020

\* C12: a Deposit or Withdrawal changes available by its amount rounded to
\* 4 decimal places half-to-even, as the table of the rounding law gives it,
\* and a Dispute, Resolve or Chargeback that takes effect moves the table's
\* value for the amount of the indexed record.
C12_RoundsHalfToEven ==
    [][ReadRecord(TransactionTypes) =>
          LET c == tx'.client_id
              i == tx'.tx_id
              pre == AccountOf(c)
              post == client_states'[c]
          IN  /\ result' = "running"
              /\ (tx'.type = "deposit" /\ ~pre.locked) =>
                    /\ post.available = pre.available + RoundingLaw(tx'.amount.val)
                    /\ post.held = pre.held
              /\ (tx'.type = "withdrawal" /\ ~pre.locked) =>
                    /\ post.available =
                          IF pre.available >= RoundingLaw(tx'.amount.val)
                             THEN pre.available - RoundingLaw(tx'.amount.val)
                             ELSE pre.available
                    /\ post.held = pre.held
              /\ (tx'.type \in DisputeFamily /\ post # pre) =>
                    LET moved == RoundingLaw(disputable_transactions[i].amount.val)
                    IN  CASE tx'.type = "dispute" ->
                               /\ post.available = pre.available - moved
                               /\ post.held = pre.held + moved
                          [] tx'.type = "resolve" ->
                               /\ post.available = pre.available + moved
                               /\ post.held = pre.held - moved
                          [] tx'.type = "chargeback" ->
                               /\ post.available = pre.available
                               /\ post.held = pre.held - moved]_vars

\* deposit(1,1,1.00015); dispute(1,1); resolve(1,1): the deposit was rounded
\* up to the even 1.0002, which went to held and came back.
C12_Witness ==
    /\ result = "running"
    /\ records_read = 3
    /\ tx = Transaction("resolve", 1, 1, None)
    /\ DOMAIN disputable_transactions = {1}
    /\ disputable_transactions[1] = Transaction("deposit", 1, 1, Some(100015))
    /\ client_states[1].available = 100020
    /\ client_states[1].held = 0
    /\ client_states[1].total = 100020

\* C13: the map holds an account for exactly the client ids of the records
\* read so far: it is empty before the first record, every record adds its
\* client id and nothing else, whatever its kind and effect, and no account is
\* ever removed; the account a first, ignored record creates is zeroed,
\* unlocked and has no open dispute, and that is the map Ok returns.
C13_AccountPerClientSeen ==
    [][/\ records_read = 0 => DOMAIN client_states = {}
       /\ ReadRecord(TransactionTypes) =>
            /\ DOMAIN client_states' = DOMAIN client_states \cup {tx'.client_id}
            /\ (tx'.client_id \notin DOMAIN client_states
                  /\ tx'.type \in DisputeFamily
                  /\ tx'.tx_id \notin DOMAIN disputable_transactions) =>
                  LET post == client_states'[tx'.client_id]
                  IN  /\ post.client_id = tx'.client_id
                      /\ post.available = 0
                      /\ post.held = 0
                      /\ post.total = 0
                      /\ ~post.locked
                      /\ post.disputed_tx_ids = {}
       /\ ~ReadRecord(TransactionTypes) => client_states' = client_states]_vars

\* deposit(1,..) then a Dispute by client 2 for an unindexed tx id, then the
\* end of the input: the returned map has client 1 and a zeroed client 2.
C13_Witness ==
    /\ result = "Ok"
    /\ records_read = 2
    /\ tx.type = "dispute"
    /\ tx.client_id = 2
    /\ tx.tx_id \notin DOMAIN disputable_transactions
    /\ DOMAIN client_states = {1, 2}
    /\ client_states[1].available > 0
    /\ client_states[2].available = 0
    /\ client_states[2].held = 0
    /\ client_states[2].total = 0
    /\ ~client_states[2].locked
    /\ client_states[2].disputed_tx_ids = {}

\* C14 as claimed: an entry of the disputable index is never removed and the
\* amount it records never changes, whatever records follow.
C14_IndexEntriesNeverChange ==
    [][\A i \in DOMAIN disputable_transactions :
          /\ i \in DOMAIN disputable_transactions'
          /\ disputable_transactions'[i].amount = disputable_transactions[i].amount]_vars

\* C14 as amended: an entry of the disputable index is never removed, and
\* Dispute, Resolve and Chargeback records never add or modify one; but a
\* Deposit or Withdrawal read for an unlocked account always stores its own
\* record under its tx id, replacing an earlier entry with that tx id (last
\* write wins), and that is the only way an entry changes.
C14_IndexLastWriteWins ==
    [][/\ \A i \in DOMAIN disputable_transactions :
            /\ i \in DOMAIN disputable_transactions'
            /\ disputable_transactions'[i] # disputable_transactions[i] =>
                  /\ ReadRecord({"deposit", "withdrawal"})
                  /\ tx'.tx_id = i
                  /\ ~AccountOf(tx'.client_id).locked
       /\ \A i \in DOMAIN disputable_transactions' \ DOMAIN disputable_transactions :
            /\ ReadRecord({"deposit", "withdrawal"})
            /\ tx'.tx_id = i
       /\ (ReadRecord({"deposit", "withdrawal"}) /\ ~AccountOf(tx'.client_id).locked) =>
            /\ tx'.tx_id \in DOMAIN disputable_transactions'
            /\ disputable_transactions'[tx'.tx_id] = tx'
       /\ ReadRecord(DisputeFamily) =>
            disputable_transactions' = disputable_transactions]_vars

\* A Deposit has just replaced the entry of a tx id that is under dispute:
\* the amount held for the dispute is not the amount the index now records.
C14_Witness ==
    /\ result = "running"
    /\ tx.type = "deposit"
    /\ tx.amount.some
    /\ disputable_transactions[tx.tx_id] = tx
    /\ \E c \in DOMAIN client_states :
          /\ client_states[c].disputed_tx_ids = {tx.tx_id}
          /\ client_states[c].held # IndexedAmount(tx.tx_id)

\* C15 as claimed: at any moment at most one dispute is open for a tx id; a
\* tx id is in the disputed_tx_ids of at most one client account.
C15_OneOpenDisputePerTxId ==
    \A i \in TxIds :
        Cardinality({c \in DOMAIN client_states :
                        i \in client_states[c].disputed_tx_ids}) <= 1

\* C15 as amended: at most one dispute is open for a tx id per client. A
\* Dispute takes effect only when its tx id is not already in the sender's own
\* disputed_tx_ids, and then adds it to that set alone; whether another client
\* has the same tx id under dispute plays no part, so one tx id can be open in
\* several accounts at once.
C15_OneOpenDisputePerTxIdPerClient ==
    [][ReadRecord({"dispute"}) =>
          LET c    == tx'.client_id
              i    == tx'.tx_id
              pre  == AccountOf(c)
              post == client_states'[c]
              applies == /\ ~pre.locked
                         /\ i \in DOMAIN disputable_transactions
                         /\ i \notin pre.disputed_tx_ids
          IN  /\ i \in pre.disputed_tx_ids =>
                    /\ post = pre
                    /\ result' = "running"
              /\ (applies /\ result' = "running") =>
                    /\ post.disputed_tx_ids = pre.disputed_tx_ids \cup {i}
                    /\ post.held = pre.held + IndexedAmount(i)
              /\ ~applies => post.disputed_tx_ids = pre.disputed_tx_ids
              /\ \A o \in DOMAIN client_states \ {c} :
                    client_states'[o].disputed_tx_ids =
                        client_states[o].disputed_tx_ids]_vars

\* Two clients have the same tx id under open dispute, and the second of
\* them has just opened it.
C15_Witness ==
    /\ result = "running"
    /\ tx.type = "dispute"
    /\ tx.tx_id \in DOMAIN disputable_transactions
    /\ \A c \in ClientIds :
          /\ c \in DOMAIN client_states
          /\ tx.tx_id \in client_states[c].disputed_tx_ids
          /\ client_states[c].held = IndexedAmount(tx.tx_id)
          /\ client_states[c].held > 0

\* C16: a record addressed to a locked client changes nothing in the whole
\* processor state, the disputable index included, and does not fail; so a
\* Deposit or Withdrawal sent to a locked account is not indexed, and a
\* Dispute (by any client) for a tx id that has no entry is ignored.
C16_LockedRecordChangesNothing ==
    [][/\ (ReadRecord(TransactionTypes) /\ AccountOf(tx'.client_id).locked) =>
            /\ client_states' = client_states
            /\ disputable_transactions' = disputable_transactions
            /\ result' = "running"
       /\ (ReadRecord({"dispute"})
             /\ tx'.tx_id \notin DOMAIN disputable_transactions) =>
            /\ client_states'[tx'.client_id] = AccountOf(tx'.client_id)
            /\ disputable_transactions' = disputable_transactions
            /\ result' = "running"]_vars

\* A Deposit with a new tx id has just been sent to an account locked by a
\* chargeback: its tx id has no entry in the index.
C16_Witness ==
    /\ result = "running"
    /\ tx.type = "deposit"
    /\ tx.amount.some
    /\ tx.client_id \in DOMAIN client_states
    /\ client_states[tx.client_id].locked
    /\ tx.tx_id \notin DOMAIN disputable_transactions
    /\ DOMAIN disputable_transactions # {}

\* ------------------------------------------------------------ C17: reordering
\* Input streams of two clients whose Deposit/Withdrawal amounts are absent
\* or 0.00026, read up to CommuteRecords records deep; at every state reached
\* the next two records of the input are swapped.
CommuteRecords == 4

CommuteAmounts == {None, Some(26)}

DepositCommute == Read("deposit", ClientIds, TxIds, CommuteAmounts, CommuteRecords)

WithdrawalCommute == Read("withdrawal", ClientIds, TxIds, CommuteAmounts, CommuteRecords)

DisputeCommute == Read("dispute", ClientIds, TxIds, {None}, CommuteRecords)

ResolveCommute == Read("resolve", ClientIds, TxIds, {None}, CommuteRecords)

ChargebackCommute == Read("chargeback", ClientIds, TxIds, {None}, CommuteRecords)

NextCommute ==
    \/ DepositCommute
    \/ WithdrawalCommute
    \/ DisputeCommute
    \/ ResolveCommute
    \/ ChargebackCommute
    \/ ReturnOk

SpecCommute == Init /\ [][NextCommute]_vars

\* The records a client can send next.
RecordsOf(c) ==
    {Transaction(k, c, i, a) :
        k \in {"deposit", "withdrawal"}, i \in TxIds, a \in CommuteAmounts}
    \cup {Transaction(k, c, i, None) : k \in DisputeFamily, i \in TxIds}

\* Two loop iterations in a row from the current state; a panic in the first
\* ends the run before the second record is read.
ApplyTwo(x, y) ==
    LET first == ProcessTx(client_states, disputable_transactions, x)
    IN  IF first.panic
           THEN first
           ELSE ProcessTx(first.client_states, first.disputable_transactions, y)

\* Both orders end the same way: both abort, or both go on with the same
\* account map and the same disputable index.
Commute(x, y) ==
    LET xy == ApplyTwo(x, y)
        yx == ApplyTwo(y, x)
    IN  /\ xy.panic = yx.panic
        /\ ~xy.panic => SameOutcome(xy, yx)

Declares(x) == x.type \in {"deposit", "withdrawal"}

\* C17 as claimed: adjacent records x, y (x first) of different clients may
\* be swapped unless x is a Deposit/Withdrawal and y references or re-declares
\* its tx id; every such swap leaves the same account map and index.
C17_SwapKeepingDeclarationBeforeLaterReference ==
    result = "running" =>
        \A c \in ClientIds :
            \A d \in ClientIds \ {c} :
                \A x \in RecordsOf(c), y \in RecordsOf(d) :
                    ~(Declares(x) /\ y.tx_id = x.tx_id) => Commute(x, y)

\* C17 as amended: two adjacent records of different clients commute when
\* they have different tx ids, and also when they share a tx id that neither
\* of them declares (both are Dispute/Resolve/Chargeback). A Deposit or
\* Withdrawal does not commute with a record of the same tx id, whichever of
\* the two comes first, so a reordering yields the same result when it keeps
\* each client's records in order and keeps the order between every
\* Deposit/Withdrawal and every record, earlier or later, with the same tx id.
C17_IndependentRecordsCommute ==
    result = "running" =>
        \A x \in RecordsOf(1), y \in RecordsOf(2) :
            ~(x.tx_id = y.tx_id /\ (Declares(x) \/ Declares(y))) => Commute(x, y)

\* Two clients can each open a dispute on the same indexed tx id next; both
\* disputes take effect, in either order.
C17_Witness ==
    /\ result = "running"
    /\ \E i \in DOMAIN disputable_transactions :
          LET x == Transaction("dispute", 1, i, None)
              y == Transaction("resolve", 2, i, None)
              xy == ApplyTwo(x, y)
          IN  /\ ~xy.panic
              /\ xy.client_states[1].held = AccountOf(1).held + IndexedAmount(i)
              /\ xy.client_states[2].held = AccountOf(2).held - IndexedAmount(i)
              /\ IndexedAmount(i) > 0
              /\ Commute(x, y)

\* ------------------------------------------------- C18: unique tx ids, held
\* Input streams in which every Deposit/Withdrawal carries an amount of 0,
\* 0.00015 or 0.00026 and a tx id that no earlier Deposit/Withdrawal has put
\* in the index.
UniqueAmounts == {Some(0), Some(15), Some(26)}

DepositUnique ==
    Read("deposit", ClientIds, TxIds \ DOMAIN disputable_transactions,
         UniqueAmounts, MaxRecords)

WithdrawalUnique ==
    Read("withdrawal", ClientIds, TxIds \ DOMAIN disputable_transactions,
         UniqueAmounts, MaxRecords)

DisputeUnique == Read("dispute", ClientIds, TxIds, {None}, MaxRecords)

ResolveUnique == Read("resolve", ClientIds, TxIds, {None}, MaxRecords)

ChargebackUnique == Read("chargeback", ClientIds, TxIds, {None}, MaxRecords)

NextUnique ==
    \/ DepositUnique
    \/ WithdrawalUnique
    \/ DisputeUnique
    \/ ResolveUnique
    \/ ChargebackUnique
    \/ ReturnOk

SpecUnique == Init /\ [][NextUnique]_vars

RECURSIVE SumIndexed(_)
SumIndexed(ids) ==
    IF ids = {}
       THEN 0
       ELSE LET i == CHOOSE j \in ids : TRUE
            IN  IndexedAmount(i) + SumIndexed(ids \ {i})

\* C18: with tx ids unique among Deposit/Withdrawal records and all their
\* amounts present and non-negative, after every record every account's held
\* balance is the sum of the indexed rounded amounts of the tx ids in its
\* disputed_tx_ids; held is never negative, and is 0 when the set is empty.
C18_HeldIsSumOfOpenDisputes ==
    /\ result \in {"running", "Ok"}
    /\ \A c \in DOMAIN client_states :
          /\ client_states[c].disputed_tx_ids \subseteq DOMAIN disputable_transactions
          /\ client_states[c].held = SumIndexed(client_states[c].disputed_tx_ids)
          /\ client_states[c].held >= 0
          /\ client_states[c].disputed_tx_ids = {} => client_states[c].held = 0

\* An account has two disputes open at once, and the second one has just been
\* opened: held is the sum of the two amounts, 0.0002 + 0.0003.
C18_Witness ==
    /\ result = "running"
    /\ tx.type = "dispute"
    /\ DOMAIN disputable_transactions = TxIds
    /\ tx.client_id \in DOMAIN client_states
    /\ client_states[tx.client_id].disputed_tx_ids = TxIds
    /\ client_states[tx.client_id].held = 50
    /\ IndexedAmount(tx.tx_id) \in {20, 30}

\* --------------------------------------------------------------- C19: locking
\* Input streams of two clients whose Deposit/Withdrawal amounts are absent
\* or 0.00026, long enough for an account to be locked with a second dispute
\* still open and to receive further records afterwards.
LockRecords == 6

LockAmounts == {None, Some(26)}

DepositLock == Read("deposit", ClientIds, TxIds, LockAmounts, LockRecords)

WithdrawalLock == Read("withdrawal", ClientIds, TxIds, LockAmounts, LockRecords)

DisputeLock == Read("dispute", ClientIds, TxIds, {None}, LockRecords)

ResolveLock == Read("resolve", ClientIds, TxIds, {None}, LockRecords)

ChargebackLock == Read("chargeback", ClientIds, TxIds, {None}, LockRecords)

NextLock ==
    \/ DepositLock
    \/ WithdrawalLock
    \/ DisputeLock
    \/ ResolveLock
    \/ ChargebackLock
    \/ ReturnOk

SpecLock == Init /\ [][NextLock]_vars

\* C19: an account becomes locked only through a Chargeback of its own client
\* whose tx id was under open dispute for that client; an applied Chargeback
\* locks the account, and a locked account never changes again, so at most
\* one Chargeback is applied per client and the tx ids still in the dispute
\* set at that moment stay there, with held unchanged, until the run ends.
C19_LockedOnlyByOneChargeback ==
    [][/\ \A c \in DOMAIN client_states' :
            LET pre  == AccountOf(c)
                post == client_states'[c]
            IN  /\ (post.locked /\ ~pre.locked) =>
                      /\ ReadRecord({"chargeback"})
                      /\ tx'.client_id = c
                      /\ tx'.tx_id \in pre.disputed_tx_ids
                      /\ tx'.tx_id \in DOMAIN disputable_transactions
                      /\ post.disputed_tx_ids = pre.disputed_tx_ids \ {tx'.tx_id}
                /\ pre.locked =>
                      /\ post.locked
                      /\ post.disputed_tx_ids = pre.disputed_tx_ids
                      /\ post.held = pre.held
                      /\ post = pre
       /\ ReadRecord({"chargeback"}) =>
            LET pre  == AccountOf(tx'.client_id)
                post == client_states'[tx'.client_id]
            IN  (post # pre /\ result' = "running") =>
                   /\ ~pre.locked
                   /\ post.locked]_vars

\* An account was locked by a chargeback while another dispute was open, and
\* a Resolve for that dispute has just been sent to it: the tx id is still in
\* the set and its amount is still held.
C19_Witness ==
    /\ result = "running"
    /\ tx.type = "resolve"
    /\ tx.client_id \in DOMAIN client_states
    /\ client_states[tx.client_id].locked
    /\ client_states[tx.client_id].disputed_tx_ids = {tx.tx_id}
    /\ tx.tx_id \in DOMAIN disputable_transactions
    /\ client_states[tx.client_id].held = IndexedAmount(tx.tx_id)
    /\ client_states[tx.client_id].held > 0

\* ------------------------------------------------ C20: non-negative amounts
\* Input streams whose Deposit/Withdrawal amounts are absent, 0.00015 or
\* 0.00026.
NonNegAmounts == {None, Some(15), Some(26)}

DepositNonNeg == Read("deposit", ClientIds, TxIds, NonNegAmounts, MaxRecords)

WithdrawalNonNeg == Read("withdrawal", ClientIds, TxIds, NonNegAmounts, MaxRecords)

DisputeNonNeg == Read("dispute", ClientIds, TxIds, {None}, MaxRecords)

ResolveNonNeg == Read("resolve", ClientIds, TxIds, {None}, MaxRecords)

ChargebackNonNeg == Read("chargeback", ClientIds, TxIds, {None}, MaxRecords)

NextNonNeg ==
    \/ DepositNonNeg
    \/ WithdrawalNonNeg
    \/ DisputeNonNeg
    \/ ResolveNonNeg
    \/ ChargebackNonNeg
    \/ ReturnOk

SpecNonNeg == Init /\ [][NextNonNeg]_vars

\* C20 as claimed: with non-negative Deposit/Withdrawal amounts every
\* account's available balance is at least zero after every record.
C20_AvailableNeverNegative ==
    \A c \in DOMAIN client_states : client_states[c].available >= 0

\* C20 as amended: with non-negative Deposit/Withdrawal amounts, Deposit,
\* Withdrawal, Resolve and Chargeback never lower an account's available
\* balance below zero (a Withdrawal is applied only when available covers
\* it); only an applied Dispute can, because it subtracts the indexed amount
\* without looking at the balance.
C20_OnlyDisputeMakesAvailableNegative ==
    [][\A c \in DOMAIN client_states' :
          LET pre  == AccountOf(c)
              post == client_states'[c]
          IN  /\ (post.available < 0 /\ post.available < pre.available) =>
                    /\ ReadRecord({"dispute"})
                    /\ tx'.client_id = c
                    /\ tx'.tx_id \in DOMAIN disputable_transactions
                    /\ tx'.tx_id \notin pre.disputed_tx_ids
                    /\ post.available = pre.available - IndexedAmount(tx'.tx_id)
              /\ (ReadRecord({"withdrawal"}) /\ tx'.client_id = c
                    /\ post.available # pre.available) =>
                    /\ post.available >= 0
                    /\ post.available =
                          pre.available - RoundDp(UnwrapOrDefault(tx'.amount))]_vars

\* A Withdrawal was rejected for lack of funds but indexed, and a Dispute on
\* it has just taken its amount out of an available balance of zero.
C20_Witness ==
    /\ result = "running"
    /\ tx.type = "dispute"
    /\ tx.tx_id \in DOMAIN disputable_transactions
    /\ disputable_transactions[tx.tx_id].type = "withdrawal"
    /\ IndexedAmount(tx.tx_id) > 0
    /\ tx.client_id \in DOMAIN client_states
    /\ client_states[tx.client_id].available = 0 - IndexedAmount(tx.tx_id)
    /\ client_states[tx.client_id].held = IndexedAmount(tx.tx_id)

====
